---- MODULE Spec2Model ----
(***************************************************************************)
(* LLMEngine of bolt-llama-electron (node-llama-cpp integration) and the   *)
(* IPC handlers that drive it.  One action is one synchronous segment of   *)
(* an async method: from its invocation, or from the resumption of an      *)
(* await / yield, up to the next await, yield or return.  Segments of      *)
(* different calls interleave freely, as promises resolve in any order.    *)
(***************************************************************************)
EXTENDS Integers, Sequences, FiniteSets

VARIABLES
    model,        \* LLMEngine.model: id of the LlamaModel held, 0 = null
    context,      \* LLMEngine.context: id of the LlamaContext held, 0 = null
    session,      \* LLMEngine.session: id of the LlamaChatSession held, 0 = null
    config,       \* LLMEngine.config
    isLoading,    \* LLMEngine.isLoading
    isCancelled,  \* LLMEngine.isCancelled
    modelState,   \* runtime: per model handle "free" | "alive" | "disposed"
    ctxState,     \* runtime: per context "none" | "alive" | "disposed"
    modelOutput,  \* runtime: the text session.prompt() resolves with
    calls,        \* the calls made on the engine, each with its position and locals
    now,          \* runtime: the value of Date.now()
    watchers,     \* FileManager.watchers: Map from path to FSWatcher (its index)
    fsWatchers,   \* runtime: every FSWatcher that watch() returned, with its state
    input,        \* ChatInterface: the text of the input box
    chatIsLoading,\* useChatStore: isLoading
    messages,     \* useChatStore: messages, each by its role
    error,        \* useChatStore: error, "" = null
    pending,      \* renderer: generate requests sent and not yet settled
    platform,     \* runtime: process.platform
    appState,     \* runtime: how far the Electron app has come
    mainWindow,   \* index.ts: mainWindow, 0 = null
    ipcHandler,   \* index.ts: ipcHandler, 0 = null
    windows,      \* runtime: every BrowserWindow created, "open" | "closed"
    invokeHandlers, \* runtime: the channels ipcMain holds an invoke handler for
    handleCalls   \* runtime: per channel, the calls of ipcMain.handle made so far

\* FileManager
fileVars == <<watchers, fsWatchers>>

\* the chat interface of the renderer
chatVars == <<input, chatIsLoading, messages, error, pending>>

\* the main process around the IPC handlers
appVars == <<platform, appState, mainWindow, ipcHandler, windows,
             invokeHandlers, handleCalls>>

\* what lies outside the engine
hostVars == <<now, fileVars, chatVars, appVars>>

vars == <<model, context, session, config, isLoading, isCancelled,
          modelState, ctxState, modelOutput, calls, hostVars>>

engineVars == <<model, context, session, config, isLoading, isCancelled>>

\* the engine, the runtime objects it holds and the calls made on it
engineSide == <<engineVars, modelState, ctxState, modelOutput, calls>>

-----------------------------------------------------------------------------
(* Bounds *)

MaxCalls == 3
MaxChunks == 2
MaxTime == 2
MaxWatchers == 4
MaxMessages == 6
MaxWindows == 3

CallIds == 1..MaxCalls

-----------------------------------------------------------------------------
(* Text: a string is a sequence of one-character strings. *)

\* BT stands for the backquote character, NL for the newline character
BT == "BT"
NL == "NL"
WordChars == {"a", "b"}

chunkSize == 50

Min(a, b) == IF a < b THEN a ELSE b

Rep(ch, n) == [k \in 1..n |-> ch]

\* a slice that wrongly treats the end index as inclusive-minus-one
substringOverlap(s, from, to) ==
    SubSeq(s, IF from = 0 THEN 1 ELSE from, Min(to, Len(s)))

substringShort(s, from, to) == SubSeq(s, from + 1, Min(to, Len(s)) - 1)

\* String.prototype.substring(from, to), 0-based, end exclusive, clamped
substring(s, from, to) == SubSeq(s, from + 1, Min(to, Len(s)))

\* Math.ceil(n / 4)
floorDiv4(n) == n \div 4

\* Math.ceil(n / 4)
ceilDiv4(n) == (n + 3) \div 4

FenceAt(s, p) == /\ p >= 1
                 /\ p + 2 <= Len(s)
                 /\ s[p] = BT /\ s[p + 1] = BT /\ s[p + 2] = BT

\* length of the (greedy) run of \w characters starting at p
RECURSIVE WordRun(_, _)
WordRun(s, p) == IF p <= Len(s) /\ s[p] \in WordChars
                 THEN 1 + WordRun(s, p + 1) ELSE 0

\* position of the first body character of a fence opened at p, 0 if the
\* opening  BT BT BT (?:\w+)? NL  does not match at p
BodyStart(s, p) ==
    IF ~FenceAt(s, p) THEN 0
    ELSE LET q == p + 3 + WordRun(s, p + 3)
         IN IF q <= Len(s) /\ s[q] = NL THEN q + 1 ELSE 0

\* positions j >= q of a closing  NL BT BT BT
Closers(s, q) == {j \in q..Len(s) : s[j] = NL /\ FenceAt(s, j + 1)}

SetMin(S) == CHOOSE x \in S : \A y \in S : x <= y

\* start positions at which the pattern
\*   BT BT BT (?:\w+)? NL ([\s\S]*?) NL BT BT BT
\* matches
MatchStarts(s) ==
    {p \in 1..Len(s) : BodyStart(s, p) > 0 /\ Closers(s, BodyStart(s, p)) # {}}

\* generatedCode.match(...): <<>> stands for null, <<body>> for group 1
codeMatch(s) ==
    IF MatchStarts(s) = {} THEN <<>>
    ELSE LET p == SetMin(MatchStarts(s))
             q == BodyStart(s, p)
             j == SetMin(Closers(s, q))
         IN <<SubSeq(s, q, j - 1)>>

\* const code = codeMatch ? codeMatch[1] : generatedCode
extractCode(s) == IF codeMatch(s) # <<>> THEN codeMatch(s)[1] ELSE s

Fence == <<BT, BT, BT>>

\* the texts the model is taken to answer with
Outputs ==
    {<<>>, <<"a">>,
     Fence \o <<NL, "a", NL>> \o Fence,
     <<"b", " ">> \o Fence \o <<"a", NL, "a", NL, "b", NL>> \o Fence \o <<NL, "b">>,
     Fence \o <<"a", NL>> \o Fence}
    \cup {Rep("a", MaxChunks * chunkSize + d) : d \in {0, 1}}

\* the model has not answered yet
Undecided == <<"?">>

-----------------------------------------------------------------------------
(* Configuration *)

DefaultPath == "~/.bolt-llama/models/model.gguf"
Paths == {"/models/a.gguf", "/models/b.gguf"}

\* constructor(config = {}) with LLM_DEFAULTS (temperature and topP in tenths)
DefaultConfig ==
    [modelPath |-> DefaultPath, temperature |-> 7, topP |-> 9, topK |-> 40]

\* { ...this.config, ...partial }
updateConfig(partial) ==
    [f \in DOMAIN config |-> IF f \in DOMAIN partial THEN partial[f] ELSE config[f]]

\* the partial configurations handed to updateConfig()
Partials ==
    {[temperature |-> 2], [topP |-> 5, topK |-> 10],
     [modelPath |-> "/models/a.gguf"]}

-----------------------------------------------------------------------------
(* Calls *)

NoEvents == <<>>
NoResult == [code |-> <<>>, tokens |-> -1, generationTime |-> -1]

IdleCall ==
    [kind |-> "none", via |-> "direct", pc |-> "idle", h |-> 0,
     path |-> "", params |-> <<>>, generatedCode |-> <<>>, i |-> 0,
     events |-> NoEvents, outcome |-> "", result |-> NoResult,
     busyAtStart |-> FALSE, overlapped |-> FALSE, answered |-> FALSE,
     cancelReq |-> FALSE, cancelAt |-> -1,
     accepted |-> <<>>, startTime |-> 0, loadedFrom |-> ""]

Event(t, d, e, n) == [type |-> t, data |-> d, error |-> e, totalLength |-> n]

Started(c) == calls[c].kind # "none"
Done(c) == calls[c].pc = "done"
Running(c) == Started(c) /\ ~Done(c)

\* the next call takes the next free slot
CanStart(c) == /\ ~Started(c)
               /\ \A d \in 1..(c - 1) : Started(d)

IsGeneration(c) == calls[c].kind \in {"generate", "generateStream", "chat"}

\* accepted (past the guards) and not yet at its result or terminal event
InFlight(c) == /\ IsGeneration(c)
               /\ calls[c].pc \in {"started", "prompt", "chunk"}

AnyInFlight == \E d \in CallIds : InFlight(d)

\* some initialize() has completed successfully
SomeLoadSucceeded ==
    \E d \in CallIds : /\ calls[d].kind = "initialize"
                        /\ calls[d].outcome = "ok"

\* a call as it is invoked; it records whether a generation was in flight
\* and whether any call was under way at that moment
NewCall(kind, via) ==
    [IdleCall EXCEPT !.kind = kind, !.via = via, !.busyAtStart = AnyInFlight,
                     !.overlapped = \E d \in CallIds : Running(d)]

\* isModelLoaded()
isModelLoaded == model # 0 /\ context # 0 /\ session # 0

\* the Ready state: model, context and session held and live, no load going on
Ready ==
    /\ isModelLoaded
    /\ ~isLoading
    /\ modelState[model] = "alive"
    /\ ctxState[context] = "alive"

\* the call returns (or throws) with the given outcome; its locals die
Return(c, out) ==
    calls' = [calls EXCEPT ![c].pc = "done", ![c].outcome = out, ![c].h = 0,
                           ![c].path = "", ![c].i = 0, ![c].generatedCode = <<>>,
                           ![c].startTime = 0]

\* new Map()
NoWatchers == [p \in {} |-> 0]

\* the invoke channels in the order setupHandlers() registers them
InvokeChannels ==
    << "llm:generate", "llm:load-model", "llm:get-models",
       "file:read", "file:write", "file:delete", "file:create", "file:list",
       "project:create", "project:list", "project:delete", "project:export",
       "chat:add-message", "chat:get-history", "chat:clear-history" >>

Channels == {InvokeChannels[i] : i \in DOMAIN InvokeChannels}

Platforms == {"darwin", "linux"}

\* the host as the process starts on the platform p
HostInitOn(p) ==
    /\ now = 0
    /\ watchers = NoWatchers
    /\ fsWatchers = <<>>
    /\ input = "" /\ chatIsLoading = FALSE /\ messages = <<>>
    /\ error = "" /\ pending = 0
    /\ platform = p
    /\ appState = "launching"
    /\ mainWindow = 0 /\ ipcHandler = 0
    /\ windows = <<>>
    /\ invokeHandlers = {}
    /\ handleCalls = [ch \in Channels |-> 0]

HostInit == HostInitOn("darwin")

-----------------------------------------------------------------------------
Init ==
    /\ HostInit
    /\ model = 0 /\ context = 0 /\ session = 0
    /\ config = DefaultConfig
    /\ isLoading = FALSE
    /\ isCancelled = FALSE
    /\ modelState = [m \in CallIds |-> "free"]
    /\ ctxState = [m \in CallIds |-> "none"]
    /\ modelOutput = Undecided
    /\ calls = [c \in CallIds |-> IdleCall]

-----------------------------------------------------------------------------
(* LLMEngine.initialize *)

\* a variant of the guard below that never finds a model loaded
neverLoaded == FALSE

\* "if (this.model)": initialize() returns at once on a loaded model
alreadyLoaded == model # 0

\* initialize() up to "await getLlama()"; cfg is this.config at entry
initializeEnter(c, via, cfg) ==
    /\ CanStart(c)
    /\ config' = cfg
    /\ IF alreadyLoaded
       THEN \* "Model already loaded"
            /\ calls' = [calls EXCEPT ![c] =
                   [NewCall("initialize", via) EXCEPT !.pc = "done",
                                                      !.outcome = "noop"]]
            /\ UNCHANGED isLoading
       ELSE /\ isLoading' = TRUE
            /\ calls' = [calls EXCEPT ![c] =
                   [NewCall("initialize", via) EXCEPT !.pc = "getLlama"]]
    /\ UNCHANGED <<model, context, session, isCancelled, modelState, ctxState,
                   modelOutput>>
    /\ UNCHANGED hostVars

initialize(c) == initializeEnter(c, "direct", config)

\* handleLoadModel(modelPath): updateConfig({modelPath}) then initialize()
handleLoadModel(c, p) == initializeEnter(c, "ipc", updateConfig([modelPath |-> p]))

\* the catch block of initialize()
initializeCatch(c) ==
    /\ isLoading' = FALSE
    /\ Return(c, "failed")
    /\ UNCHANGED <<model, context, session, config, isCancelled, modelState,
                   ctxState, modelOutput>>

\* getLlama() settles; on success loadModel is called with this.config.modelPath
initialize_getLlama(c) ==
    /\ calls[c].kind = "initialize" /\ calls[c].pc = "getLlama"
    /\ \/ /\ calls' = [calls EXCEPT ![c].pc = "loadModel",
                                    ![c].path = config.modelPath]
          /\ UNCHANGED <<engineVars, modelState, ctxState, modelOutput>>
       \/ initializeCatch(c)
    /\ UNCHANGED hostVars

\* llama.loadModel() settles; on success this.model is assigned and
\* this.model.createContext() is called
initialize_loadModel(c) ==
    /\ calls[c].kind = "initialize" /\ calls[c].pc = "loadModel"
    /\ \/ /\ modelState' = [modelState EXCEPT ![c] = "alive"]
          /\ model' = c
          /\ calls' = [calls EXCEPT ![c].pc = "createContext", ![c].h = c,
                                    ![c].loadedFrom = calls[c].path]
          /\ UNCHANGED <<context, session, config, isLoading, isCancelled,
                         ctxState, modelOutput>>
       \/ initializeCatch(c)
    /\ UNCHANGED hostVars

\* createContext() settles; on success this.context is assigned and the
\* LlamaChatSession is constructed on its sequence
initialize_createContext(c) ==
    /\ calls[c].kind = "initialize" /\ calls[c].pc = "createContext"
    /\ \/ /\ ctxState' = [ctxState EXCEPT ![calls[c].h] = "alive"]
          /\ context' = calls[c].h
          /\ \/ /\ session' = calls[c].h
                /\ isLoading' = FALSE
                /\ Return(c, "ok")
             \/ \* new LlamaChatSession(...) throws
                /\ isLoading' = FALSE
                /\ Return(c, "failed")
                /\ UNCHANGED session
          /\ UNCHANGED <<model, config, isCancelled, modelState, modelOutput>>
       \/ initializeCatch(c)
    /\ UNCHANGED hostVars

-----------------------------------------------------------------------------
(* LLMEngine.unload *)

\* the tail of unload(): "this.session = null" and return
unloadFinish(c) ==
    /\ session' = 0
    /\ Return(c, "ok")

\* a variant of unload() that turns to the model first
unloadModelFirst(c, via) ==
    /\ CanStart(c)
    /\ LET call == NewCall("unload", via)
       IN IF model # 0
          THEN /\ calls' = [calls EXCEPT ![c] =
                      [call EXCEPT !.pc = "disposeModel", !.h = model]]
               /\ UNCHANGED session
          ELSE /\ session' = 0
               /\ calls' = [calls EXCEPT ![c] =
                      [call EXCEPT !.pc = "done", !.outcome = "ok"]]
    /\ UNCHANGED <<model, context, config, isLoading, isCancelled, modelState,
                   ctxState, modelOutput>>

\* unload() up to its first await
unloadEnter(c, via) ==
    /\ CanStart(c)
    /\ LET call == NewCall("unload", via)
       IN IF context # 0
          THEN /\ calls' = [calls EXCEPT ![c] =
                      [call EXCEPT !.pc = "disposeContext", !.h = context]]
               /\ UNCHANGED session
          ELSE IF model # 0
          THEN /\ calls' = [calls EXCEPT ![c] =
                      [call EXCEPT !.pc = "disposeModel", !.h = model]]
               /\ UNCHANGED session
          ELSE /\ session' = 0
               /\ calls' = [calls EXCEPT ![c] =
                      [call EXCEPT !.pc = "done", !.outcome = "ok"]]
    /\ UNCHANGED <<model, context, config, isLoading, isCancelled, modelState,
                   ctxState, modelOutput>>

unload(c) == unloadEnter(c, "direct") /\ UNCHANGED hostVars

\* a variant of the catch block of unload() that throws the error on
unloadRethrow(c) ==
    /\ Return(c, "failed")
    /\ UNCHANGED <<engineVars, modelState, ctxState, modelOutput>>

\* the catch block of unload(): the error is logged, nothing is cleared
unloadCatch(c) ==
    /\ Return(c, "ok")
    /\ UNCHANGED <<engineVars, modelState, ctxState, modelOutput>>

\* context.dispose() settles
unload_disposeContext(c) ==
    /\ calls[c].kind = "unload" /\ calls[c].pc = "disposeContext"
    /\ \/ /\ ctxState' = [ctxState EXCEPT ![calls[c].h] = "disposed"]
          /\ context' = 0
          /\ IF model # 0
             THEN /\ calls' = [calls EXCEPT ![c].pc = "disposeModel", ![c].h = model]
                  /\ UNCHANGED session
             ELSE unloadFinish(c)
          /\ UNCHANGED <<model, config, isLoading, isCancelled, modelState,
                         modelOutput>>
       \/ unloadCatch(c)
    /\ UNCHANGED hostVars

\* model.dispose() settles
unload_disposeModel(c) ==
    /\ calls[c].kind = "unload" /\ calls[c].pc = "disposeModel"
    /\ \/ /\ modelState' = [modelState EXCEPT ![calls[c].h] = "disposed"]
          /\ model' = 0
          /\ unloadFinish(c)
          /\ UNCHANGED <<context, config, isLoading, isCancelled, ctxState,
                         modelOutput>>
       \/ unloadCatch(c)
    /\ UNCHANGED hostVars

-----------------------------------------------------------------------------
(* session.prompt() *)

\* the sampling options handed to session.prompt()
Params == <<config.temperature, config.topP, config.topK>>

\* a variant of the reset below that keeps the flag as it is
keepCancelled == isCancelled

\* "this.isCancelled = false": the flag as an accepted generation leaves it
resetCancelled == FALSE

\* a variant of the guard below that looks at the model instead
noModel == model = 0

\* "if (!this.session)": the guard of generate(), generateStream(), chat()
noSession == session = 0

\* the call record of a call that invokes this.session.prompt() with the
\* options opts
Prompting(call, opts) ==
    [call EXCEPT !.pc = "prompt", !.h = session, !.params = opts]

\* the text a successful prompt resolves with: the model's answer, decided
\* by the first prompt that completes
Answers == IF modelOutput = Undecided THEN Outputs ELSE {modelOutput}

-----------------------------------------------------------------------------
(* LLMEngine.generate *)

\* a variant of the difference below with its operands swapped
elapsedReversed(start) == start - now

\* "Date.now() - startTime"
elapsed(start) == now - start

\* generate() up to "await this.session.prompt(...)"
generateEnter(c, via) ==
    /\ CanStart(c)
    /\ LET call == NewCall("generate", via)
       IN IF noSession
          THEN /\ calls' = [calls EXCEPT ![c] =
                      [call EXCEPT !.pc = "done", !.outcome = "notInitialized"]]
               /\ UNCHANGED isCancelled
          ELSE IF isLoading
          THEN /\ calls' = [calls EXCEPT ![c] =
                      [call EXCEPT !.pc = "done", !.outcome = "loading"]]
               /\ UNCHANGED isCancelled
          ELSE /\ isCancelled' = resetCancelled
               /\ calls' = [calls EXCEPT ![c] =
                      Prompting([call EXCEPT !.accepted = Params,
                                             !.startTime = now], Params)]
    /\ UNCHANGED <<model, context, session, config, isLoading, modelState,
                   ctxState, modelOutput>>
    /\ UNCHANGED hostVars

generate(c) == generateEnter(c, "direct")

\* session.prompt() settles: the result is built, or the catch block runs
generate_prompt(c) ==
    /\ calls[c].kind = "generate" /\ calls[c].pc = "prompt"
    /\ \/ \E r \in Answers :
             /\ modelOutput' = r
             /\ calls' = [calls EXCEPT
                    ![c].pc = "done", ![c].outcome = "ok", ![c].h = 0,
                    ![c].answered = TRUE, ![c].startTime = 0,
                    ![c].result = [code |-> extractCode(r),
                                   tokens |-> ceilDiv4(Len(r)),
                                   generationTime |-> elapsed(calls[c].startTime)]]
       \/ /\ Return(c, IF isCancelled THEN "cancelled" ELSE "failed")
          /\ UNCHANGED modelOutput
    /\ UNCHANGED <<engineVars, modelState, ctxState>>
    /\ UNCHANGED hostVars

\* IPCHandler.handleLLMGenerate: the handler refuses unless isModelLoaded(),
\* then calls generate() and passes its result or its error on
handleLLMGenerate(c) ==
    IF ~isModelLoaded
    THEN /\ CanStart(c)
         /\ calls' = [calls EXCEPT ![c] =
                [NewCall("generate", "ipc") EXCEPT !.pc = "done",
                                                   !.outcome = "notLoaded"]]
         /\ UNCHANGED <<engineVars, modelState, ctxState, modelOutput, hostVars>>
    ELSE generateEnter(c, "ipc")

-----------------------------------------------------------------------------
(* LLMEngine.chat *)

\* chat() up to "await this.session.prompt(message)"; no options are passed
chatEnter(c, via) ==
    /\ CanStart(c)
    /\ LET call == NewCall("chat", via)
       IN IF noSession
          THEN calls' = [calls EXCEPT ![c] =
                  [call EXCEPT !.pc = "done", !.outcome = "notInitialized"]]
          ELSE calls' = [calls EXCEPT ![c] = Prompting(call, <<>>)]
    /\ UNCHANGED <<engineVars, modelState, ctxState, modelOutput>>
    /\ UNCHANGED hostVars

chat(c) == chatEnter(c, "direct")

\* IPCHandler.handleChatAddMessage: calls chat() and turns its result or its
\* error into a reply
handleChatAddMessage(c) == chatEnter(c, "ipc")

\* session.prompt() settles: the response is returned as it is, or the catch
\* block throws "Chat failed"
chat_prompt(c) ==
    /\ calls[c].kind = "chat" /\ calls[c].pc = "prompt"
    /\ \/ \E r \in Answers :
             /\ modelOutput' = r
             /\ calls' = [calls EXCEPT
                    ![c].pc = "done", ![c].outcome = "ok", ![c].h = 0,
                    ![c].answered = TRUE,
                    ![c].result = [code |-> r, tokens |-> -1,
                                   generationTime |-> -1]]
       \/ /\ Return(c, "failed")
          /\ UNCHANGED modelOutput
    /\ UNCHANGED <<engineVars, modelState, ctxState>>
    /\ UNCHANGED hostVars

-----------------------------------------------------------------------------
(* LLMEngine.generateStream: each action runs the generator up to its next
   yield, await or return *)

\* a variant of the catch block of generateStream() that returns silently
generateStreamCatchSilent(c) == Return(c, "returned")

\* the catch block of generateStream()
generateStreamCatch(c) ==
    IF ~isCancelled
    THEN calls' = [calls EXCEPT ![c].events = Append(@, Event("error", <<>>, "failed", 0)),
                                ![c].pc = "error"]
    ELSE Return(c, "returned")

\* a total that wrongly reports the token estimate
totalLengthAsTokens(r) == ceilDiv4(Len(r))

\* metadata.totalLength of the End event
totalLength(r) == Len(r)

\* a variant of the chunk loop that does not look at the cancellation flag
generateStreamLoopUnchecked(c, r, i) ==
    IF i < Len(r)
    THEN calls' = [calls EXCEPT
             ![c].events = Append(@, Event("chunk", substring(r, i, i + chunkSize), "", 0)),
             ![c].pc = "chunk", ![c].generatedCode = r, ![c].i = i,
             ![c].answered = TRUE]
    ELSE calls' = [calls EXCEPT
             ![c].events = Append(@, Event("end", <<>>, "", totalLength(r))),
             ![c].pc = "end", ![c].generatedCode = r, ![c].i = i,
             ![c].answered = TRUE]

\* one pass of the chunk loop at index i over the text r, or the code after it
generateStreamLoop(c, r, i) ==
    IF i < Len(r)
    THEN IF isCancelled
         THEN calls' = [calls EXCEPT
                  ![c].events = Append(@, Event("error", <<>>, "cancelled", 0)),
                  ![c].pc = "error", ![c].generatedCode = r, ![c].i = i,
                  ![c].answered = TRUE]
         ELSE calls' = [calls EXCEPT
                  ![c].events = Append(@, Event("chunk", substring(r, i, i + chunkSize), "", 0)),
                  ![c].pc = "chunk", ![c].generatedCode = r, ![c].i = i,
                  ![c].answered = TRUE]
    ELSE calls' = [calls EXCEPT
             ![c].events = Append(@, Event("end", <<>>, "", totalLength(r))),
             ![c].pc = "end", ![c].generatedCode = r, ![c].i = i,
             ![c].answered = TRUE]

\* the first next(): the guards, then the Start event
generateStream(c) ==
    /\ CanStart(c)
    /\ LET call == NewCall("generateStream", "direct")
       IN IF noSession
          THEN /\ calls' = [calls EXCEPT ![c] =
                      [call EXCEPT !.pc = "rejected",
                          !.events = <<Event("error", <<>>, "notInitialized", 0)>>]]
               /\ UNCHANGED isCancelled
          ELSE IF isLoading
          THEN /\ calls' = [calls EXCEPT ![c] =
                      [call EXCEPT !.pc = "rejected",
                          !.events = <<Event("error", <<>>, "loading", 0)>>]]
               /\ UNCHANGED isCancelled
          ELSE /\ isCancelled' = resetCancelled
               /\ calls' = [calls EXCEPT ![c] =
                      [call EXCEPT !.pc = "started", !.accepted = Params,
                          !.events = <<Event("start", <<>>, "", 0)>>]]
    /\ UNCHANGED <<model, context, session, config, isLoading, modelState,
                   ctxState, modelOutput>>
    /\ UNCHANGED hostVars

\* a later next(): the generator resumes after its last yield
generateStream_next(c) ==
    /\ calls[c].kind = "generateStream"
    /\ calls[c].pc \in {"rejected", "started", "chunk", "end", "error"}
    /\ CASE calls[c].pc = "started" ->
              IF session # 0
              THEN calls' = [calls EXCEPT ![c] = Prompting(calls[c], Params)]
              ELSE \* this.session is null: the TypeError is caught
                   generateStreamCatch(c)
         [] calls[c].pc = "chunk" ->
              generateStreamLoop(c, calls[c].generatedCode, calls[c].i + chunkSize)
         [] OTHER -> Return(c, "returned")
    /\ UNCHANGED <<engineVars, modelState, ctxState, modelOutput>>
    /\ UNCHANGED hostVars

\* session.prompt() settles: the chunk loop starts, or the catch block runs
generateStream_prompt(c) ==
    /\ calls[c].kind = "generateStream" /\ calls[c].pc = "prompt"
    /\ \/ \E r \in Answers :
             /\ modelOutput' = r
             /\ generateStreamLoop(c, r, 0)
       \/ /\ generateStreamCatch(c)
          /\ UNCHANGED modelOutput
    /\ UNCHANGED <<engineVars, modelState, ctxState>>
    /\ UNCHANGED hostVars

-----------------------------------------------------------------------------
(* LLMEngine.cancel *)

\* a stream that has emitted Start and still has a cancellation check ahead
BeforeLastCheck(d) ==
    /\ calls[d].kind = "generateStream"
    /\ \/ calls[d].pc \in {"started", "prompt"}
       \/ /\ calls[d].pc = "chunk"
          /\ calls[d].i + chunkSize < Len(calls[d].generatedCode)

\* the record of the call d after a cancel(): a call in flight records
\* that, and where, it was cancelled
CancelSeen(d) ==
    IF InFlight(d)
    THEN [calls[d] EXCEPT
             !.cancelReq = TRUE,
             !.cancelAt = IF @ = -1 /\ BeforeLastCheck(d)
                          THEN Len(calls[d].events) ELSE @]
    ELSE calls[d]

\* cancel()
cancel ==
    /\ isCancelled' = TRUE
    /\ calls' = [d \in CallIds |-> CancelSeen(d)]
    /\ UNCHANGED <<model, context, session, config, isLoading, modelState,
                   ctxState, modelOutput>>
    /\ UNCHANGED hostVars

\* IPCHandler.handleCancelGeneration: calls cancel(); the call is kept on
\* record with whether a generation was in flight when it was made
handleCancelGeneration(c) ==
    /\ CanStart(c)
    /\ isCancelled' = TRUE
    /\ calls' = [d \in CallIds |->
          IF d = c
          THEN [NewCall("cancel", "ipc") EXCEPT !.pc = "done", !.outcome = "ok"]
          ELSE CancelSeen(d)]
    /\ UNCHANGED <<model, context, session, config, isLoading, modelState,
                   ctxState, modelOutput>>
    /\ UNCHANGED hostVars

-----------------------------------------------------------------------------
Next ==
    \/ \E c \in CallIds :
        \/ initialize(c)
        \/ \E p \in Paths : handleLoadModel(c, p)
        \/ initialize_getLlama(c)
        \/ initialize_loadModel(c)
        \/ initialize_createContext(c)
        \/ unload(c)
        \/ unload_disposeContext(c)
        \/ unload_disposeModel(c)
        \/ generate(c)
        \/ generate_prompt(c)
        \/ generateStream(c)
        \/ generateStream_next(c)
        \/ generateStream_prompt(c)
    \/ cancel

Spec == Init /\ [][Next]_vars

-----------------------------------------------------------------------------
(* Generation on a loaded engine: the engine as one successful initialize()
   leaves it, then generation, cancellation and unload calls only *)

InitReady ==
    /\ HostInit
    /\ model = 1 /\ context = 1 /\ session = 1
    /\ config = DefaultConfig
    /\ isLoading = FALSE
    /\ isCancelled = FALSE
    /\ modelState = [m \in CallIds |-> IF m = 1 THEN "alive" ELSE "free"]
    /\ ctxState = [m \in CallIds |-> IF m = 1 THEN "alive" ELSE "none"]
    /\ modelOutput = Undecided
    /\ calls = [c \in CallIds |->
                  IF c = 1
                  THEN [IdleCall EXCEPT !.kind = "initialize", !.pc = "done",
                                        !.outcome = "ok",
                                        !.loadedFrom = DefaultPath]
                  ELSE IdleCall]

NextGen ==
    \/ \E c \in CallIds :
        \/ generate(c)
        \/ generate_prompt(c)
        \/ generateStream(c)
        \/ generateStream_next(c)
        \/ generateStream_prompt(c)
        \/ unload(c)
        \/ unload_disposeContext(c)
        \/ unload_disposeModel(c)
    \/ cancel

SpecGen == InitReady /\ [][NextGen]_vars

-----------------------------------------------------------------------------
(* Loading and unloading from the engine as constructed, with generate()
   called directly and through its handler at every point of it *)

NextLoad ==
    \E c \in CallIds :
        \/ initialize(c)
        \/ initialize_getLlama(c)
        \/ initialize_loadModel(c)
        \/ initialize_createContext(c)
        \/ unload(c)
        \/ unload_disposeContext(c)
        \/ unload_disposeModel(c)
        \/ generate(c)
        \/ handleLLMGenerate(c)
        \/ generate_prompt(c)

SpecLoad == Init /\ [][NextLoad]_vars

-----------------------------------------------------------------------------
(* Generation on a loaded engine with the cancel requests kept on record *)

NextStale ==
    \E c \in CallIds :
        \/ generate(c)
        \/ generate_prompt(c)
        \/ generateStream(c)
        \/ generateStream_next(c)
        \/ generateStream_prompt(c)
        \/ handleCancelGeneration(c)

SpecStale == InitReady /\ [][NextStale]_vars

-----------------------------------------------------------------------------
(* Generation on a loaded engine whose configuration is updated in between *)

\* updateConfig(partial), called on its own
updateConfigCall(partial) ==
    /\ config' = updateConfig(partial)
    /\ UNCHANGED <<model, context, session, isLoading, isCancelled, modelState,
                   ctxState, modelOutput, calls>>
    /\ UNCHANGED hostVars

NextCfg ==
    \/ \E c \in CallIds :
        \/ generate(c)
        \/ generate_prompt(c)
        \/ generateStream(c)
        \/ generateStream_next(c)
        \/ generateStream_prompt(c)
    \/ \E partial \in Partials : updateConfigCall(partial)

SpecCfg == InitReady /\ [][NextCfg]_vars

-----------------------------------------------------------------------------
(* FileManager: the watchers *)

WatchPaths == {"/p/a.ts", "/p/b.ts", "/p/c.ts"}

\* a variant of the test below that never finds the path watched
neverWatching(filePath) == FALSE

\* this.watchers.has(filePath)
watching(filePath) == filePath \in DOMAIN watchers

\* watcher.close() on the FSWatcher w
close(ws, w) == [ws EXCEPT ![w].open = FALSE]

\* watchFile(filePath, callback); watch() throws for a path it cannot watch
watchFile(filePath) ==
    /\ IF watching(filePath)
       THEN UNCHANGED <<watchers, fsWatchers>>
       ELSE \/ /\ Len(fsWatchers) < MaxWatchers
               /\ fsWatchers' = Append(fsWatchers, [path |-> filePath, open |-> TRUE])
               /\ watchers' = [p \in DOMAIN watchers \cup {filePath} |->
                                 IF p = filePath THEN Len(fsWatchers) + 1
                                 ELSE watchers[p]]
            \/ \* the catch block: the error is logged
               UNCHANGED <<watchers, fsWatchers>>
    /\ UNCHANGED <<engineSide, now, chatVars, appVars>>

\* IPCHandler.handleFileWatch
handleFileWatch(filePath) == watchFile(filePath)

\* unwatchFile(filePath)
unwatchFile(filePath) ==
    /\ IF watching(filePath)
       THEN /\ fsWatchers' = close(fsWatchers, watchers[filePath])
            /\ watchers' = [p \in DOMAIN watchers \ {filePath} |-> watchers[p]]
       ELSE UNCHANGED <<watchers, fsWatchers>>
    /\ UNCHANGED <<engineSide, now, chatVars, appVars>>

\* IPCHandler.handleFileUnwatch
handleFileUnwatch(filePath) == unwatchFile(filePath)

\* the loop of unwatchAll() over the entries still to visit: each is closed
\* and deleted from the map
RECURSIVE unwatchLoop(_, _, _)
unwatchLoop(todo, map, ws) ==
    IF todo = {} THEN <<map, ws>>
    ELSE LET p == CHOOSE q \in todo : TRUE
         IN unwatchLoop(todo \ {p},
                        [q \in DOMAIN map \ {p} |-> map[q]],
                        close(ws, map[p]))

\* unwatchAll()
unwatchAll ==
    /\ watchers' = unwatchLoop(DOMAIN watchers, watchers, fsWatchers)[1]
    /\ fsWatchers' = unwatchLoop(DOMAIN watchers, watchers, fsWatchers)[2]
    /\ UNCHANGED <<engineSide, now, chatVars, appVars>>

NextWatch ==
    \/ \E filePath \in WatchPaths :
        \/ watchFile(filePath)
        \/ handleFileWatch(filePath)
        \/ unwatchFile(filePath)
        \/ handleFileUnwatch(filePath)
    \/ unwatchAll

SpecWatch == Init /\ [][NextWatch]_vars

-----------------------------------------------------------------------------
(* Generation on a loaded engine while the application quits *)

\* IPCHandler.cleanup up to the first await of unload(): unwatchAll() has run
cleanupEnter(c) ==
    /\ unloadEnter(c, "ipc")
    /\ watchers' = unwatchLoop(DOMAIN watchers, watchers, fsWatchers)[1]
    /\ fsWatchers' = unwatchLoop(DOMAIN watchers, watchers, fsWatchers)[2]

\* IPCHandler.cleanup called on its own
cleanup(c) == cleanupEnter(c) /\ UNCHANGED <<now, chatVars, appVars>>

NextQuit ==
    \E c \in CallIds :
        \/ generate(c)
        \/ generate_prompt(c)
        \/ generateStream(c)
        \/ generateStream_next(c)
        \/ generateStream_prompt(c)
        \/ chat(c)
        \/ chat_prompt(c)
        \/ cleanup(c)
        \/ unload_disposeContext(c)
        \/ unload_disposeModel(c)

SpecQuit == InitReady /\ [][NextQuit]_vars

-----------------------------------------------------------------------------
(* generate() on a loaded engine while the clock runs *)

\* a millisecond passes
tick ==
    /\ now < MaxTime
    /\ now' = now + 1
    /\ UNCHANGED <<engineSide, fileVars, chatVars, appVars>>

NextTime ==
    \/ \E c \in CallIds :
        \/ generate(c)
        \/ generate_prompt(c)
    \/ tick

SpecTime == InitReady /\ [][NextTime]_vars

-----------------------------------------------------------------------------
(* Every way to a prompt on a loaded engine: generate() directly and through
   its handler, generateStream(), chat() directly and through its handler,
   with unload calls in between *)

NextChat ==
    \E c \in CallIds :
        \/ generate(c)
        \/ handleLLMGenerate(c)
        \/ generate_prompt(c)
        \/ generateStream(c)
        \/ generateStream_next(c)
        \/ generateStream_prompt(c)
        \/ chat(c)
        \/ handleChatAddMessage(c)
        \/ chat_prompt(c)
        \/ unload(c)
        \/ unload_disposeContext(c)
        \/ unload_disposeModel(c)

SpecChat == InitReady /\ [][NextChat]_vars

-----------------------------------------------------------------------------
(* Observations on calls *)

IsStream(c) == calls[c].kind = "generateStream"
IsTerminal(ev) == ev.type \in {"end", "error"}

\* the payloads of the Chunk events of a stream, concatenated in order
RECURSIVE ConcatChunks(_)
ConcatChunks(evs) ==
    IF evs = <<>> THEN <<>>
    ELSE (IF Head(evs).type = "chunk" THEN Head(evs).data ELSE <<>>)
         \o ConcatChunks(Tail(evs))

\* the sum of the lengths of the Chunk payloads of a stream
RECURSIVE SumChunkLengths(_)
SumChunkLengths(evs) ==
    IF evs = <<>> THEN 0
    ELSE (IF Head(evs).type = "chunk" THEN Len(Head(evs).data) ELSE 0)
         + SumChunkLengths(Tail(evs))

NumChunks(evs) == Cardinality({k \in 1..Len(evs) : evs[k].type = "chunk"})

\* the stream ended with an End event
Ended(c) == /\ IsStream(c)
            /\ Len(calls[c].events) > 0
            /\ calls[c].events[Len(calls[c].events)].type = "end"

\* Start, then Chunks only, then End with the sum of the Chunk lengths
StartChunksEnd(evs) ==
    /\ Len(evs) >= 2
    /\ evs[1].type = "start"
    /\ evs[Len(evs)].type = "end"
    /\ \A k \in 2..(Len(evs) - 1) : evs[k].type = "chunk"
    /\ evs[Len(evs)].totalLength = SumChunkLengths(evs)

\* an exhausted stream whose prompt resolved and that no cancel() was aimed at
Uncancelled(c) ==
    /\ IsStream(c) /\ Done(c)
    /\ calls[c].answered
    /\ ~calls[c].cancelReq

Quiescent == \A c \in CallIds : ~Running(c)

\* every call so far was invoked with no other call under way
Sequential == \A c \in CallIds : ~calls[c].overlapped

OthersQuiescent(c) == \A d \in CallIds \ {c} : ~Running(d)

\* the call c returns (or throws) in this step
Returns(c) == Running(c) /\ calls'[c].pc = "done"

-----------------------------------------------------------------------------
(* C1: at most one generation is in flight at any time, and a generate()
   invoked while an earlier generate() or generateStream() is in flight
   fails at once with a concurrent-generation error, without prompting the
   model. *)
C1_OneGenerationInFlight ==
    /\ Cardinality({c \in CallIds : InFlight(c)}) <= 1
    /\ \A c \in CallIds :
          (calls[c].kind = "generate" /\ calls[c].busyAtStart)
             => /\ Done(c)
                /\ calls[c].outcome = "concurrentGeneration"
                /\ ~calls[c].answered

(* C2: a generateStream() invoked while another generation is in flight
   yields an Error event as its first and only event, and leaves the
   generation in flight alone: a cancellation requested for it stays set
   while it is in flight. *)
C2_ConcurrentStreamRejected ==
    /\ \A c \in CallIds :
          (IsStream(c) /\ calls[c].busyAtStart)
             => /\ calls[c].events[1].type = "error"
                /\ Len(calls[c].events) = 1
    /\ \A d \in CallIds :
          (InFlight(d) /\ calls[d].cancelReq) => isCancelled

(* C3: at most one model handle is loaded and not yet disposed. *)
C3_SingleModelAlive ==
    Cardinality({m \in CallIds : modelState[m] = "alive"}) <= 1

(* C4: when initialize() fails, the calls so far having run one after
   another, it leaves the engine unloaded: model, context and session null,
   isLoading false. *)
C4_FailedInitializeRollsBack ==
    [][\A c \in CallIds :
          (/\ calls[c].kind = "initialize"
           /\ Sequential /\ OthersQuiescent(c)
           /\ Returns(c)
           /\ calls'[c].outcome = "failed")
             => (model' = 0 /\ context' = 0 /\ session' = 0 /\ ~isLoading')]_vars

(* C5: a stream consumed to exhaustion has at most one Start, which comes
   before every Chunk, and ends with exactly one terminal event (End or
   Error), which is its last event. *)
C5_StreamWellFormed ==
    \A c \in CallIds :
        (IsStream(c) /\ Done(c)) =>
            LET evs == calls[c].events
            IN /\ Len(evs) >= 1
               /\ IsTerminal(evs[Len(evs)])
               /\ \A k \in 1..(Len(evs) - 1) : ~IsTerminal(evs[k])
               /\ \A k \in 1..Len(evs) : evs[k].type = "start" => k = 1
               /\ \A k \in 1..Len(evs) : evs[k].type = "chunk" => evs[1].type = "start"

(* C6: after a cancel() that comes after the stream's Start and before its
   last cancellation check, the stream emits no Chunk and no End of a
   non-empty output, and once exhausted it has ended with exactly one Error
   event, the one that indicates cancellation. *)
C6_CancelStopsStream ==
    \A c \in CallIds :
        (IsStream(c) /\ calls[c].cancelAt >= 0) =>
            LET evs == calls[c].events
            IN /\ \A k \in (calls[c].cancelAt + 1)..Len(evs) :
                     /\ evs[k].type # "chunk"
                     /\ evs[k].type = "end" => evs[k].totalLength = 0
               /\ (Done(c) /\ evs[Len(evs)].type # "end") =>
                     /\ evs[Len(evs)].type = "error"
                     /\ evs[Len(evs)].error = "cancelled"
                     /\ Cardinality({k \in 1..Len(evs) : evs[k].type = "error"}) = 1

(* C7, as stated: for the same model output, the Chunk payloads of
   generateStream() concatenate to the code field generate() returns. *)
C7_ChunksEqualCode ==
    \A g \in CallIds : \A c \in CallIds :
        (/\ calls[g].kind = "generate" /\ Done(g) /\ calls[g].outcome = "ok"
         /\ Ended(c))
            => ConcatChunks(calls[c].events) = calls[g].result.code

(* C7, amended: the Chunk payloads of a stream that reached End concatenate
   to the raw model output; they equal the code field generate() returns for
   that output when the output holds no fenced code block, and otherwise
   generate() returns the body of the first fenced block instead. *)
C7_ChunksEqualRawOutput ==
    /\ \A c \in CallIds : Ended(c) => ConcatChunks(calls[c].events) = modelOutput
    /\ \A g \in CallIds :
          (calls[g].kind = "generate" /\ Done(g) /\ calls[g].outcome = "ok")
             => calls[g].result.code =
                   (IF MatchStarts(modelOutput) = {} THEN modelOutput
                    ELSE codeMatch(modelOutput)[1])

C7_Witness ==
    \E g \in CallIds : \E c \in CallIds :
        /\ calls[g].kind = "generate" /\ Done(g) /\ calls[g].outcome = "ok"
        /\ Ended(c) /\ Done(c)
        /\ NumChunks(calls[c].events) >= 2
        /\ calls[g].result.code = ConcatChunks(calls[c].events)

(* C8, as stated: a stream on a loaded engine that is not cancelled and whose
   prompt succeeds is Start, then at least one Chunk, then one End whose
   totalLength is the sum of the Chunk lengths. *)
C8_StartChunksEnd ==
    \A c \in CallIds :
        Uncancelled(c) =>
            /\ StartChunksEnd(calls[c].events)
            /\ NumChunks(calls[c].events) >= 1

(* C8, amended: such a stream is Start, then the Chunks, then one End whose
   totalLength is the sum of the Chunk lengths; it has at least one Chunk
   exactly when the model output is not empty (an empty output gives Start,
   End with totalLength 0). *)
C8_StartChunksEndNonEmpty ==
    \A c \in CallIds :
        Uncancelled(c) =>
            /\ StartChunksEnd(calls[c].events)
            /\ NumChunks(calls[c].events) >= 1 <=> modelOutput # <<>>

C8_Witness ==
    \E c \in CallIds :
        /\ Uncancelled(c)
        /\ NumChunks(calls[c].events) >= 2
        /\ calls[c].events[Len(calls[c].events)].totalLength > 2 * chunkSize

(* C9: when unload() returns, the calls so far having run one after another,
   the engine is unloaded: model, context and session are null. *)
C9_UnloadClears ==
    [][\A c \in CallIds :
          (calls[c].kind = "unload" /\ Sequential /\ OthersQuiescent(c) /\ Returns(c))
             => (model' = 0 /\ context' = 0 /\ session' = 0)]_vars

(* C10: a non-null session comes with the model and the context it was
   created from, both non-null and not disposed; stated for the states in
   which no call is under way and the calls so far ran one after another. *)
C10_SessionHasLiveModel ==
    (Quiescent /\ Sequential /\ session # 0) =>
        /\ model = session /\ context = session
        /\ modelState[session] = "alive"
        /\ ctxState[session] = "alive"

\* the call c invokes this.session.prompt() in this step
InvokesPrompt(c) == calls[c].pc # "prompt" /\ calls'[c].pc = "prompt"

(* C11: session.prompt() is invoked, by generate(), generateStream() or
   chat(), only while the engine is Ready: model, context and session held
   and live and no load in progress; stated for calls that ran one after
   another. *)
C11_PromptOnlyWhenReady ==
    [][\A c \in CallIds :
          (InvokesPrompt(c) /\ Sequential') => Ready]_vars

\* the call c is invoked in this step, as a call of the given kind
Invoked(c, kind) == calls[c].kind = "none" /\ calls'[c].kind = kind

(* C12: generate() called before any initialize() has succeeded, directly
   or through handleLLMGenerate, fails at once with a not-loaded error,
   invokes no prompt, and leaves model, context, session, config and
   isLoading (and the model's and context's state) unchanged. *)
C12_GenerateBeforeLoadRejected ==
    [][\A c \in CallIds :
          (Invoked(c, "generate") /\ ~SomeLoadSucceeded) =>
              /\ calls'[c].pc = "done"
              /\ calls'[c].outcome \in {"notInitialized", "notLoaded"}
              /\ calls'[c].params = <<>> /\ calls'[c].h = 0
              /\ UNCHANGED <<model, context, session, config, isLoading,
                             modelState, ctxState, modelOutput>>]_vars

\* both ways of calling it were rejected, the direct one while an
\* initialize() that later failed held a loaded model
C12_Witness ==
    /\ ~SomeLoadSucceeded
    /\ \E c, d \in CallIds :
          /\ calls[c].kind = "generate" /\ calls[c].via = "direct"
          /\ calls[c].outcome = "notInitialized" /\ calls[c].overlapped
          /\ calls[d].kind = "generate" /\ calls[d].via = "ipc"
          /\ calls[d].outcome = "notLoaded"
    /\ \E e \in CallIds : calls[e].kind = "initialize" /\ calls[e].outcome = "failed"
    /\ model # 0

\* the models that are loaded and not disposed
AliveModels == {m \in CallIds : modelState[m] = "alive"}

(* C13: an initialize() that directly follows an initialize() that completed
   successfully, the calls having run one after another, is a no-op: it
   returns at once, leaves the model, context and session references and
   what they refer to unchanged, and exactly one model is loaded. *)
C13_SecondInitializeNoOp ==
    [][\A c \in CallIds \ {1} :
          (/\ Invoked(c, "initialize")
           /\ calls[c - 1].kind = "initialize" /\ calls[c - 1].outcome = "ok"
           /\ Sequential') =>
              /\ calls'[c].pc = "done" /\ calls'[c].outcome = "noop"
              /\ UNCHANGED <<model, context, session, isLoading, modelState,
                             ctxState>>
              /\ Cardinality(AliveModels) = 1
              /\ AliveModels = {model}]_vars

\* the second of two initialize() calls in a row has returned and the engine
\* still holds what the first one loaded
C13_Witness ==
    /\ Sequential
    /\ \E c \in CallIds \ {1} :
          /\ calls[c].kind = "initialize" /\ calls[c].outcome = "noop"
          /\ calls[c - 1].kind = "initialize" /\ calls[c - 1].outcome = "ok"
          /\ model = c - 1 /\ isModelLoaded

\* the events of a stream whose prompt failed and that reported it
StartError(evs) ==
    evs = <<Event("start", <<>>, "", 0), Event("error", <<>>, "failed", 0)>>

(* C14: a generate() or generateStream() at which no cancel() was aimed
   behaves as if cancel() had never been called, whatever cancel() calls
   were made before it was accepted: the flag is false from its acceptance
   on, it never reports a cancellation, and its result or event sequence is
   the one the model's answer, or the failure of the prompt, determines. *)
C14_StaleCancelHasNoEffect ==
    \A c \in CallIds :
        (calls[c].kind \in {"generate", "generateStream"} /\ ~calls[c].cancelReq) =>
            /\ InFlight(c) => ~isCancelled
            /\ calls[c].outcome # "cancelled"
            /\ \A k \in 1..Len(calls[c].events) :
                  calls[c].events[k].error # "cancelled"
            /\ (Done(c) /\ calls[c].accepted # <<>>) =>
                  IF calls[c].kind = "generate"
                  THEN IF calls[c].answered
                       THEN /\ calls[c].outcome = "ok"
                            /\ calls[c].result.code = extractCode(modelOutput)
                       ELSE calls[c].outcome = "failed"
                  ELSE IF calls[c].answered
                       THEN /\ StartChunksEnd(calls[c].events)
                            /\ ConcatChunks(calls[c].events) = modelOutput
                       ELSE StartError(calls[c].events)

\* a cancel() with nothing in flight, then a stream that ran to its End over
\* several chunks
C14_Witness ==
    /\ calls[1].kind = "initialize"
    /\ calls[2].kind = "cancel" /\ ~calls[2].busyAtStart
    /\ calls[3].kind = "generateStream" /\ Done(3) /\ calls[3].answered
    /\ ~calls[3].cancelReq
    /\ NumChunks(calls[3].events) >= 2

\* nothing is loaded: no model, no context, no session
Unloaded == model = 0 /\ context = 0 /\ session = 0

(* C15: unload() never throws: every unload() that returns returns
   normally, also when context.dispose() or model.dispose() rejected; and
   an unload() called when nothing is loaded returns at once, changes no
   engine state and disposes nothing. *)
C15_UnloadNeverThrows ==
    [][\A c \in CallIds :
          /\ (calls'[c].kind = "unload" /\ calls'[c].pc = "done")
                => calls'[c].outcome = "ok"
          /\ (Invoked(c, "unload") /\ Unloaded) =>
                /\ calls'[c].pc = "done"
                /\ UNCHANGED <<engineVars, modelState, ctxState, modelOutput>>]_vars

\* an unload() on the engine as constructed has returned, and so has a later
\* one whose disposal failed: with no initialize() after it the engine still
\* holds a model
C15_Witness ==
    /\ Sequential /\ Quiescent
    /\ calls[1].kind = "unload" /\ calls[1].outcome = "ok"
    /\ \E d \in CallIds \ {1} :
          /\ calls[d].kind = "unload" /\ calls[d].outcome = "ok"
          /\ \A e \in CallIds : e > d => calls[e].kind # "initialize"
          /\ model # 0 /\ modelState[model] = "alive"

\* the unload() call c calls model.dispose() in this step
CallsModelDispose(c) ==
    /\ calls'[c].kind = "unload"
    /\ calls[c].pc # "disposeModel" /\ calls'[c].pc = "disposeModel"

(* C16: unload() releases in a fixed order.  It calls model.dispose() only
   once this.context is null, and if it found a context, only after that
   context was disposed; it clears the session only in its last step, when
   it returns, with the model reference already null.  When the calls ran
   one after another, no model is disposed while its context is alive. *)
C16_UnloadOrder ==
    [][/\ \A c \in CallIds :
            CallsModelDispose(c) =>
                /\ context' = 0
                /\ calls[c].pc = "disposeContext" =>
                       ctxState'[calls[c].h] = "disposed"
       /\ (session # 0 /\ session' = 0) =>
            /\ model' = 0
            /\ \E c \in CallIds :
                  /\ calls'[c].kind = "unload"
                  /\ calls[c].pc # "done" /\ calls'[c].pc = "done"
       /\ Sequential' =>
            \A m \in CallIds :
                modelState'[m] = "disposed" => ctxState'[m] # "alive"]_vars

\* a sequential unload() has disposed the context and then the model that a
\* successful initialize() created, and has cleared the session
C16_Witness ==
    /\ Sequential /\ Quiescent
    /\ \E c \in CallIds \ {1} :
          /\ calls[c].kind = "unload" /\ calls[c].outcome = "ok"
          /\ calls[c - 1].kind = "initialize" /\ calls[c - 1].outcome = "ok"
          /\ modelState[c - 1] = "disposed" /\ ctxState[c - 1] = "disposed"
          /\ Unloaded

\* the sampling options of the configuration the loaded model of InitReady
\* was loaded with
LoadedParams ==
    <<DefaultConfig.temperature, DefaultConfig.topP, DefaultConfig.topK>>

(* C17: updateConfig(partial) changes nothing but the retained
   configuration, and the new values are used only by the next load: a
   prompt on the model that is already loaded is given the sampling options
   of the configuration that model was loaded with. *)
C17_UpdateConfigOnlyForNextLoad ==
    [][/\ config' # config =>
            UNCHANGED <<model, context, session, isLoading, isCancelled,
                        modelState, ctxState, modelOutput, calls>>
       /\ \A c \in CallIds :
            InvokesPrompt(c) => calls'[c].params = LoadedParams]_vars

(* C18: the sampling options a generation hands to session.prompt() are the
   ones of the configuration as it was when the request was accepted (when
   generate() was invoked, when the stream emitted Start), whatever
   updateConfig() calls were made since. *)
C18_InFlightParamsCaptured ==
    \A c \in CallIds :
        (calls[c].kind \in {"generate", "generateStream"} /\ calls[c].params # <<>>)
            => calls[c].params = calls[c].accepted

\* a stream that emitted Start, at which no cancel() was aimed, and whose
\* prompt failed (or found the session gone)
FailedUncancelled(c) ==
    /\ IsStream(c)
    /\ calls[c].accepted # <<>>
    /\ ~calls[c].cancelReq
    /\ ~calls[c].answered
    /\ calls[c].pc \in {"error", "done"}

(* C19: a stream that emitted Start, whose prompt then failed and at which
   no cancel() was aimed, has emitted exactly one Error event, with the
   failure as its description, as its last event, and then returns: its
   events are Start and that Error, and nothing is thrown. *)
C19_StreamFailureIsOneError ==
    \A c \in CallIds :
        FailedUncancelled(c) =>
            /\ StartError(calls[c].events)
            /\ Done(c) => calls[c].outcome = "returned"

\* such a stream, whose prompt was invoked and rejected, has been exhausted
C19_Witness ==
    \E c \in CallIds :
        /\ FailedUncancelled(c) /\ Done(c)
        /\ calls[c].params # <<>>
        /\ Len(calls[c].events) = 2

(* C20: a generate() reports a cancellation only if cancel() was called
   while it was in flight, and a generate() that fails after such a cancel()
   is reported as cancelled, not as failed, whatever else is interleaved. *)
C20_CancelledIffCancelRequested ==
    \A c \in CallIds :
        (calls[c].kind = "generate" /\ Done(c)) =>
            /\ calls[c].outcome = "cancelled" => calls[c].cancelReq
            /\ (calls[c].cancelReq /\ ~calls[c].answered)
                  => calls[c].outcome = "cancelled"

\* a generate() that returned a result
Returned(c) ==
    /\ calls[c].kind = "generate" /\ Done(c) /\ calls[c].outcome = "ok"

(* C21 as stated: every generate() that returns a result returns tokens > 0
   and generationTime >= 0, for every model output. *)
C21_TokensPositive ==
    \A c \in CallIds :
        Returned(c) =>
            /\ calls[c].result.tokens > 0
            /\ calls[c].result.generationTime >= 0

(* C21: every generate() that returns a result returns generationTime >= 0
   and tokens equal to a quarter of the length of the model output, rounded
   up: tokens > 0 exactly when the output is not empty, and tokens = 0 for
   an empty output. *)
C21_TokensPositiveIffOutput ==
    \A c \in CallIds :
        Returned(c) =>
            /\ calls[c].result.generationTime >= 0
            /\ calls[c].result.tokens >= 0
            /\ calls[c].result.tokens > 0 <=> modelOutput # <<>>
            /\ 4 * calls[c].result.tokens >= Len(modelOutput)
            /\ 4 * calls[c].result.tokens < Len(modelOutput) + 4

\* a generate() returned a one-character output after time had passed, and
\* an earlier one returned at once
C21_Witness ==
    /\ Len(modelOutput) = 1
    /\ \E c, d \in CallIds :
          /\ Returned(c) /\ calls[c].result.generationTime > 0
          /\ calls[c].result.tokens = 1
          /\ Returned(d) /\ calls[d].result.generationTime = 0

\* a generate() or generateStream() that was accepted and has completed
AcceptedAndDone(c) ==
    /\ calls[c].kind \in {"generate", "generateStream"}
    /\ calls[c].accepted # <<>>
    /\ Done(c)

(* C22: each accepted generation advances the session's conversational
   context by one turn; as the engine reaches that context through
   session.prompt() only, every accepted generation that has completed has
   called session.prompt(). *)
C22_AcceptedGenerationPrompts ==
    \A c \in CallIds :
        AcceptedAndDone(c) => calls[c].params # <<>>

\* the stream c is resumed in its chunk loop in this step, after a Chunk or
\* as its prompt resolves, with content still unsent
ResumedWithContent(c) ==
    /\ IsStream(c)
    /\ \/ /\ calls[c].pc = "chunk"
          /\ Len(calls'[c].events) > Len(calls[c].events)
          /\ calls[c].i + chunkSize < Len(calls[c].generatedCode)
       \/ /\ calls[c].pc = "prompt" /\ calls'[c].answered
          /\ Len(calls'[c].generatedCode) > 0

CancelledError == Event("error", <<>>, "cancelled", 0)

(* C23: the cancellation flag is checked before each Chunk: a stream that is
   resumed with the flag set and content still unsent emits the Error event
   of a user cancellation as its very next event, and a stream that has
   emitted an Error event emits nothing after it. *)
C23_CancelCheckedBeforeEachChunk ==
    [][\A c \in CallIds :
          /\ (ResumedWithContent(c) /\ isCancelled) =>
                /\ calls'[c].events = Append(calls[c].events, CancelledError)
                /\ calls'[c].pc = "error"
          /\ (IsStream(c) /\ calls[c].pc = "error") =>
                calls'[c].events = calls[c].events]_vars

\* a stream was cancelled after its first Chunk and is exhausted: the rest of
\* an output of more than two chunks was never sent
C23_Witness ==
    \E c \in CallIds :
        /\ IsStream(c) /\ Done(c)
        /\ Len(calls[c].events) = 3
        /\ calls[c].events[2].type = "chunk"
        /\ calls[c].events[3] = CancelledError
        /\ Len(modelOutput) > 2 * chunkSize

\* the positions of the Chunk events of a stream
ChunkPositions(evs) == {k \in 1..Len(evs) : evs[k].type = "chunk"}

(* C24: every Chunk of a stream is non-empty and at most chunkSize (50)
   characters long, every Chunk but the last one emitted is exactly
   chunkSize long, and the Chunks in order are consecutive fragments of the
   model output: together they are a prefix of it. *)
C24_ChunkSizes ==
    \A c \in CallIds :
        IsStream(c) =>
            LET evs == calls[c].events
                all == ConcatChunks(evs)
            IN /\ \A k \in ChunkPositions(evs) :
                     /\ Len(evs[k].data) >= 1
                     /\ Len(evs[k].data) <= chunkSize
                     /\ (\E j \in ChunkPositions(evs) : j > k)
                           => Len(evs[k].data) = chunkSize
               /\ ChunkPositions(evs) # {} =>
                     /\ Len(all) <= Len(modelOutput)
                     /\ all = SubSeq(modelOutput, 1, Len(all))

\* a stream has sent an output of two full chunks and one more character
C24_Witness ==
    \E c \in CallIds :
        /\ Ended(c)
        /\ NumChunks(calls[c].events) = MaxChunks + 1
        /\ Len(calls[c].events[Len(calls[c].events) - 1].data) = 1

\* the FSWatchers that are open
OpenWatchers == {w \in 1..Len(fsWatchers) : fsWatchers[w].open}

(* C30: the watchers the file manager holds are exactly the open ones, one
   per path and each on the path it is registered for; a step never replaces
   the watcher of a path, creates at most one watcher and only for a path
   that had none, and removes the watcher of one path or of all of them. *)
C30_OneOpenWatcherPerPath ==
    [][/\ \A p \in DOMAIN watchers' :
            /\ watchers'[p] \in OpenWatchers'
            /\ fsWatchers'[watchers'[p]].path = p
       /\ \A w \in OpenWatchers' :
            /\ fsWatchers'[w].path \in DOMAIN watchers'
            /\ watchers'[fsWatchers'[w].path] = w
       /\ \A p \in DOMAIN watchers \cap DOMAIN watchers' :
            watchers'[p] = watchers[p]
       /\ Len(fsWatchers') > Len(fsWatchers) =>
            /\ Len(fsWatchers') = Len(fsWatchers) + 1
            /\ ~watching(fsWatchers'[Len(fsWatchers')].path)
       /\ Cardinality(DOMAIN watchers \ DOMAIN watchers')
             \in {0, 1, Cardinality(DOMAIN watchers)}]_vars

\* a path was watched, unwatched and watched again, and then everything
\* was unwatched while two paths were watched
C30_Witness ==
    /\ Len(fsWatchers) = 3
    /\ fsWatchers[1].path = fsWatchers[2].path
    /\ fsWatchers[3].path # fsWatchers[2].path
    /\ OpenWatchers = {}
    /\ DOMAIN watchers = {}

(* C25: while a generation is awaiting session.prompt(), the session it
   prompted is still the engine's session, and the model and the context of
   that session are alive. *)
C25_LiveWhilePrompting ==
    \A c \in CallIds :
        (IsGeneration(c) /\ calls[c].pc = "prompt") =>
            /\ session = calls[c].h
            /\ modelState[calls[c].h] = "alive"
            /\ ctxState[calls[c].h] = "alive"

(* C26: whenever a model is loaded, the retained configuration's modelPath
   is the path that model was loaded from; stated for the states in which no
   call is under way and the calls so far ran one after another. *)
C26_LoadedFromConfiguredPath ==
    (Quiescent /\ Sequential /\ model # 0) =>
        calls[model].loadedFrom = config.modelPath

\* the initialize() call c has set isLoading and has not reached the
\* statement, in its try or its catch block, that clears it
Loading(c) ==
    /\ calls[c].kind = "initialize"
    /\ calls[c].pc \in {"getLlama", "loadModel", "createContext"}

(* C28: isLoading is true exactly while some initialize() call is between
   starting its load and finishing it. *)
C28_IsLoadingIffLoadInProgress ==
    isLoading <=> \E c \in CallIds : Loading(c)

-----------------------------------------------------------------------------
(* ChatInterface: Submit and Cancel in the renderer *)

Inputs == {"", " ", "fix it"}

\* String.prototype.trim on the texts above
trim(text) == IF text = " " THEN "" ELSE text

\* the user edits the input box: setInput(text)
setInput(text) ==
    /\ input' = text
    /\ UNCHANGED <<chatIsLoading, messages, error, pending>>
    /\ UNCHANGED <<engineSide, now, fileVars, appVars>>

\* handleSubmit up to "await IPCClient.generateCode(request)"
handleSubmit ==
    /\ Len(messages) + pending + 2 <= MaxMessages
    /\ IF trim(input) = "" \/ chatIsLoading
       THEN UNCHANGED chatVars
       ELSE /\ messages' = Append(messages, "user")
            /\ input' = ""
            /\ chatIsLoading' = TRUE
            /\ error' = ""
            /\ pending' = pending + 1
    /\ UNCHANGED <<engineSide, now, fileVars, appVars>>

\* handleSubmit from the moment the request settles: the response becomes an
\* assistant message, or the rejection becomes the error; "finally" runs
handleSubmit_generateCode ==
    /\ pending > 0
    /\ pending' = pending - 1
    /\ \/ /\ messages' = Append(messages, "assistant")
          /\ UNCHANGED error
       \/ /\ error' = "Generation failed"
          /\ UNCHANGED messages
    /\ chatIsLoading' = FALSE
    /\ UNCHANGED input
    /\ UNCHANGED <<engineSide, now, fileVars, appVars>>

\* handleCancel, with the cancel message handled by handleCancelGeneration;
\* the Cancel button is rendered only while isLoading
handleCancel ==
    /\ chatIsLoading
    /\ isCancelled' = TRUE
    /\ chatIsLoading' = FALSE
    /\ UNCHANGED <<input, messages, error, pending>>
    /\ UNCHANGED <<model, context, session, config, isLoading, modelState,
                   ctxState, modelOutput, calls>>
    /\ UNCHANGED <<now, fileVars, appVars>>

NextChatUI ==
    \/ \E text \in Inputs : setInput(text)
    \/ handleSubmit
    \/ handleSubmit_generateCode
    \/ handleCancel

SpecChatUI == InitReady /\ [][NextChatUI]_vars

\* C27: from the chat interface, across any sequence of Submit and Cancel
\* actions, at most one generate request is awaiting its response at any time
C27_OneRequestPending == pending <= 1

-----------------------------------------------------------------------------
(* The main process: app events, the window and the IPC handlers *)

\* setupHandlers() from its i-th ipcMain.handle call on; ipcMain.handle
\* throws for a channel that already has a handler, which ends the method
RECURSIVE setupHandlersFrom(_, _, _)
setupHandlersFrom(i, handlers, counts) ==
    IF i > Len(InvokeChannels)
    THEN [handlers |-> handlers, handleCalls |-> counts, thrown |-> FALSE]
    ELSE LET channel == InvokeChannels[i]
             counted == [counts EXCEPT ![channel] = @ + 1]
         IN IF channel \in handlers
            THEN [handlers |-> handlers, handleCalls |-> counted, thrown |-> TRUE]
            ELSE setupHandlersFrom(i + 1, handlers \cup {channel}, counted)

\* new IPCHandler(mainWindow): the constructor runs setupHandlers()
setupHandlers == setupHandlersFrom(1, invokeHandlers, handleCalls)

\* createWindow(): the window is made and assigned first; ipcHandler is
\* assigned only if the constructor returns
createWindow ==
    /\ windows' = Append(windows, "open")
    /\ mainWindow' = Len(windows) + 1
    /\ invokeHandlers' = setupHandlers.handlers
    /\ handleCalls' = setupHandlers.handleCalls
    /\ ipcHandler' = IF setupHandlers.thrown THEN ipcHandler ELSE ipcHandler + 1

\* app.quit(): 'before-quit' runs cleanup() if there is an ipcHandler, and
\* every window closes, each running its 'closed' listener
quit(c) ==
    /\ appState' = "quit"
    /\ windows' = [w \in DOMAIN windows |-> "closed"]
    /\ mainWindow' = 0
    /\ IF ipcHandler # 0
       THEN cleanupEnter(c)
       ELSE UNCHANGED <<engineSide, fileVars>>
    /\ UNCHANGED <<platform, ipcHandler, invokeHandlers, handleCalls>>
    /\ UNCHANGED <<now, chatVars>>

\* app.on('ready') up to "await fileManager.initialize()"
ready ==
    /\ appState = "launching"
    /\ appState' = "initializing"
    /\ UNCHANGED <<platform, mainWindow, ipcHandler, windows, invokeHandlers,
                   handleCalls>>
    /\ UNCHANGED <<engineSide, now, fileVars, chatVars>>

\* app.on('ready') from the moment fileManager.initialize() settles: the
\* window is created, or the catch block quits
ready_initialize(c) ==
    /\ appState = "initializing"
    /\ \/ /\ createWindow
          /\ appState' = "running"
          /\ UNCHANGED platform
          /\ UNCHANGED <<engineSide, now, fileVars, chatVars>>
       \/ quit(c)

\* the user closes the window w: its 'closed' listener, then
\* 'window-all-closed'
windowClosed(w, c) ==
    /\ appState = "running"
    /\ w \in DOMAIN windows /\ windows[w] = "open"
    /\ IF platform # "darwin"
       THEN quit(c)
       ELSE /\ windows' = [windows EXCEPT ![w] = "closed"]
            /\ mainWindow' = 0
            /\ UNCHANGED <<platform, appState, ipcHandler, invokeHandlers,
                           handleCalls>>
            /\ UNCHANGED <<engineSide, now, fileVars, chatVars>>

\* app.on('activate'), an event of macOS
activate ==
    /\ appState = "running"
    /\ platform = "darwin"
    /\ Len(windows) < MaxWindows
    /\ IF mainWindow = 0
       THEN createWindow
       ELSE UNCHANGED <<mainWindow, ipcHandler, windows, invokeHandlers,
                        handleCalls>>
    /\ UNCHANGED <<platform, appState>>
    /\ UNCHANGED <<engineSide, now, fileVars, chatVars>>

\* the Exit item of the menu
menuExit(c) ==
    /\ appState = "running"
    /\ quit(c)

\* a window is there to send messages
Rendering == appState = "running" /\ mainWindow # 0

NextApp ==
    \/ ready
    \/ activate
    \/ \E c \in CallIds :
        \/ ready_initialize(c)
        \/ menuExit(c)
        \/ \E w \in 1..MaxWindows : windowClosed(w, c)
    \/ \E filePath \in WatchPaths :
        \/ Rendering /\ handleFileWatch(filePath)
        \/ Rendering /\ handleFileUnwatch(filePath)

InitApp ==
    /\ \E p \in Platforms : HostInitOn(p)
    /\ model = 0 /\ context = 0 /\ session = 0
    /\ config = DefaultConfig
    /\ isLoading = FALSE
    /\ isCancelled = FALSE
    /\ modelState = [m \in CallIds |-> "free"]
    /\ ctxState = [m \in CallIds |-> "none"]
    /\ modelOutput = Undecided
    /\ calls = [c \in CallIds |-> IdleCall]

SpecApp == InitApp /\ [][NextApp]_vars

\* C29: for any sequence of app events (ready, window closed, activate),
\* ipcMain.handle is called at most once for each invoke channel
C29_HandlerRegisteredOnce == \A channel \in Channels : handleCalls[channel] <= 1

====
